---- MODULE Spec2Model ----
(***************************************************************************)
(* Model of package wrapio (src/wrapio.go): the block adapter `block`,     *)
(* its Write/Close face built by NewBlockWriter and its Read face built by *)
(* NewBlockReader.  The sink and the source are the environment: every     *)
(* call to them picks one of the outcomes an io.Writer / io.Reader may     *)
(* produce.                                                                *)
(***************************************************************************)
EXTENDS Integers, Sequences, FiniteSets, TLC

\* ---- bounds of the model ----
MaxSize == 2        \* block sizes 1..MaxSize
MaxByte == 1        \* bytes are 0..MaxByte
MaxData == 2        \* longest slice handed to one Write
MaxTotal == 3       \* most bytes handed to Write over a run
MaxSink == 2        \* most calls the sink receives over a run
MaxDest == 4        \* longest destination handed to one Read
MaxUp == 4          \* most bytes the source delivers over a run
MaxGrow == 24       \* most bytes the source of zeros delivers over a run

None == "nil"                   \* the nil error
EOF == "EOF"                    \* io.EOF
Errs == {"e1", "e2"}            \* errors a sink may return
SourceErrs == {EOF, "e1"}       \* terminal conditions a source may signal
Byte == 0..MaxByte

VARIABLES
  size,         \* block.size
  buf,          \* block.buf
  err,          \* block.err
  sink,         \* calls received by block.w, in order: [data, by, err]
  written,      \* concatenation of the slices appended by Write
  op,           \* the last call made on the adapter
  arg,          \* its slice p (for Read: p as the call left it)
  ret,          \* its result [n, err]
  up,           \* results [n, err] of the calls to w or r made by the last call
  delivered,    \* concatenation of the bytes returned by block.r
  chunks,       \* non-empty results of Read, in order
  dest,         \* len(p) of the last Read that returned bytes
  self,         \* what the constructor returned: Nil or "block"
  ctor,         \* the constructor call: [kind, size, upstream]
  log,          \* wrap: the calls to r.Read, w.Write and the handler, in order
  stats,        \* Stats: [Total, Average, Calls]
  mu,           \* Stats.Mutex: the goroutine holding it, 0 when free
  thr,          \* per goroutine: [pc, len, tmp, total, calls], its place and
                \* its registers; pc is "idle", "held" (it holds
                \* the mutex by its own Lock) or its place in update
  hist          \* the updates that returned: [sum of len(p), n], and
                \* stray: an Unlock was called by a goroutine not holding mu

ctorVars == <<self, ctor>>
blockVars ==
  <<size, buf, err, sink, written, delivered, chunks, dest, ctorVars>>
callVars == <<op, arg, ret, up>>
wrapVars == <<log>>
statsVars == <<stats, mu, thr, hist>>

vars == <<blockVars, callVars, wrapVars, statsVars>>

MaxEvents == 4      \* most entries of the wrap log over a run
MaxWrapData == 1    \* longest slice handed to a wrap
MaxThreads == 2     \* goroutines sharing one Stats
MaxUpdates == 2     \* most calls of Stats.update over a run

Threads == 1..MaxThreads

Nil == "nil"                    \* a nil interface or pointer

\* ---- slices ----
Min(a, b) == IF a < b THEN a ELSE b

SeqsUpTo(n) == UNION {[1..k -> Byte] : k \in 0..n}

\* s[i:j] of Go, 0-based, j exclusive
Slice(s, i, j) == SubSeq(s, i + 1, j)

\* the built-in copy(dst, src): dst after the call
copy(dst, src) ==
  [k \in 1..Len(dst) |-> IF k <= Len(src) THEN src[k] ELSE dst[k]]

RECURSIVE Concat(_)
Concat(ss) == IF ss = <<>> THEN <<>> ELSE Head(ss) \o Concat(Tail(ss))

\* make([]byte, n)
make(n) == [k \in 1..n |-> 0]

\* the zero Stats of &Stats{}, no goroutine in update
StatsIdle ==
  /\ stats = [Total |-> 0, Average |-> 0, Calls |-> 0]
  /\ mu = 0
  /\ thr = [t \in Threads |-> [pc |-> "idle", len |-> 0, tmp |-> 0, total |-> 0, calls |-> 0]]
  /\ hist = [sum |-> 0, n |-> 0, stray |-> FALSE]

\* no wrap in use
WrapIdle == log = <<>>

\* no block in use
BlockIdle ==
  /\ size = 0
  /\ buf = <<>>
  /\ err = None
  /\ sink = <<>>
  /\ written = <<>>
  /\ delivered = <<>>
  /\ chunks = <<>>
  /\ dest = 0
  /\ self = Nil
  /\ ctor = [kind |-> "none", size |-> 0, upstream |-> Nil]

\* ---- block.Write, src/wrapio.go:188-210 ----

\* line 195: the number of bytes of the buffer that form whole blocks
WriteBlocksWhole(b, sz) == Len(b)
WriteBlocks(b, sz) == (Len(b) \div sz) * sz

\* lines 200-201: move the unwritten portion to the front and reslice
WriteCompactKeep(b, l) == b
WriteCompactDrop(b, l) == <<>>
WriteCompact(b, l) == Slice(copy(b, Slice(b, l, Len(b))), 0, Len(b) - l)

\* line 205: the error recorded after a failed forwarding call
WriteErrForget(e) == None
WriteErr(e) == e

\* line 206: the result of a Write whose forwarding call failed
WriteFailRetFull(p, n, e) == [n |-> Len(p), err |-> e]
WriteFailRet(p, n, e) == [n |-> n, err |-> e]

\* line 209: the result of a Write that did not fail
WriteOkRetForwarded(p, l) == [n |-> Min(l, Len(p)), err |-> None]
WriteOkRet(p, l) == [n |-> Len(p), err |-> None]

\* what one call w.Write(d) may return: all of d and nil, or a count and an
\* error
SinkOutcomes(d) ==
  {[n |-> Len(d), err |-> None]} \cup [n : 0..Len(d), err : Errs]

Write(p) ==
  /\ op' = "Write"
  /\ arg' = p
  /\ UNCHANGED <<size, delivered, chunks, dest, ctorVars,
               wrapVars, statsVars>>
  /\ IF err # None
       THEN /\ ret' = [n |-> 0, err |-> err]
            /\ up' = <<>>
            /\ UNCHANGED <<buf, err, sink, written>>
       ELSE LET b1 == buf \o p
                l == WriteBlocks(b1, size)
            IN /\ Len(written) + Len(p) <= MaxTotal
               /\ written' = written \o p
               /\ IF l > 0
                    THEN /\ Len(sink) < MaxSink
                         /\ \E out \in SinkOutcomes(Slice(b1, 0, l)) :
                              /\ sink' = Append(sink,
                                    [data |-> Slice(b1, 0, l), by |-> "Write",
                                     err |-> out.err])
                              /\ up' = <<out>>
                              /\ buf' = WriteCompact(b1, l)
                              /\ IF out.err # None
                                   THEN /\ err' = WriteErr(out.err)
                                        /\ ret' = WriteFailRet(p, out.n, out.err)
                                   ELSE /\ err' = err
                                        /\ ret' = WriteOkRet(p, l)
                    ELSE /\ buf' = b1
                         /\ ret' = WriteOkRet(p, l)
                         /\ up' = <<>>
                         /\ UNCHANGED <<err, sink>>

\* ---- block.Close, src/wrapio.go:213-224 ----

\* line 220: the bytes Close hands to the sink
CloseDataBlocks(b, sz) == Slice(b, 0, (Len(b) \div sz) * sz)
CloseData(b, sz) == b

Close ==
  /\ op' = "Close"
  /\ arg' = <<>>
  /\ UNCHANGED <<size, buf, err, written, delivered, chunks, dest, ctorVars,
               wrapVars, statsVars>>
  /\ IF err # None
       THEN /\ ret' = [n |-> 0, err |-> err]
            /\ up' = <<>>
            /\ UNCHANGED sink
       ELSE IF Len(buf) > 0
         THEN /\ Len(sink) < MaxSink
              /\ \E out \in SinkOutcomes(CloseData(buf, size)) :
                   /\ sink' = Append(sink,
                         [data |-> CloseData(buf, size), by |-> "Close",
                          err |-> out.err])
                   /\ up' = <<out>>
                   /\ ret' = [n |-> 0, err |-> out.err]
         ELSE /\ ret' = [n |-> 0, err |-> None]
              /\ up' = <<>>
              /\ UNCHANGED sink

\* ---- NewBlockWriter, src/wrapio.go:250-255 ----

\* the adapter returned for (size, w): <<>> for nil, else <<the block>>
NewBlockWriterAnySink(sz, w) ==
  IF sz < 1 THEN <<>> ELSE <<[size |-> sz, buf |-> <<>>, err |-> None]>>
NewBlockWriter(sz, w) ==
  IF w = Nil \/ sz < 1
    THEN <<>>
    ELSE <<[size |-> sz, buf |-> <<>>, err |-> None]>>

InitWriter ==
  /\ WrapIdle /\ StatsIdle
  /\ size \in 1..MaxSize
  /\ self = "block"
  /\ ctor = [kind |-> "NewBlockWriter", size |-> size, upstream |-> "w"]
  /\ buf = <<>>
  /\ err = None
  /\ sink = <<>>
  /\ written = <<>>
  /\ op = "New"
  /\ arg = <<>>
  /\ ret = [n |-> 0, err |-> None]
  /\ up = <<>>
  /\ delivered = <<>>
  /\ chunks = <<>>
  /\ dest = 0

NextWriter ==
  \/ \E p \in SeqsUpTo(MaxData) : Write(p)
  \/ Close

SpecWriter == InitWriter /\ [][NextWriter]_vars

\* ---- block.Read, src/wrapio.go:154-185 ----

\* line 156: reading has finished
ReadDoneAnyBuf(e, b) == e # None
ReadDoneNever(e, b) == FALSE
ReadDone(e, b) == e # None /\ Len(b) = 0

\* line 160: the whole blocks that fit in a destination of length L
ReadFitAll(L, sz) == L
ReadFitCeil(L, sz) == ((L + sz - 1) \div sz) * sz
ReadFit(L, sz) == (L \div sz) * sz

\* line 164: the source is read only while no condition is recorded
ReadNeedsSourceAlways(e) == TRUE
ReadNeedsSource(e) == e = None

\* lines 172-174: only pull the blocks that are in the buffer
ReadClampAll(n, b, sz) == IF n > Len(b) THEN Len(b) ELSE n
ReadClamp(n, b, sz) == IF n > Len(b) THEN (Len(b) \div sz) * sz ELSE n

\* lines 177-179: at the end without a full block, send what is left
ReadLastNever(n, b, e) == n
ReadLast(n, b, e) == IF e # None /\ n = 0 THEN Len(b) ELSE n

\* lines 182-183: move the rest to the front and reslice
ReadCompactKeep(b, n) == b
ReadCompactNoReslice(b, n) == copy(b, Slice(b, n, Len(b)))
ReadCompactSkip(b, n) == Slice(b, Min(n + 1, Len(b)), Len(b))
ReadCompact(b, n) == Slice(copy(b, Slice(b, n, Len(b))), 0, Len(b) - n)

\* line 184: the result of a Read that went past line 163
ReadRetErr(n, e) == [n |-> n, err |-> e]
ReadRet(n, e) == [n |-> n, err |-> None]

\* what one call r.Read(p) may return: some bytes, at most len(p), with nil,
\* io.EOF or an error
\* the same for a source of zero bytes, the only source as long as MaxGrow
ZeroOutcomes(L) ==
  [data : {make(k) : k \in 0..Min(L, MaxGrow - Len(delivered))},
   err : {None} \cup SourceErrs]

SourceOutcomes(L) ==
  IF ctor.upstream = "zeros"
    THEN ZeroOutcomes(L)
    ELSE [data : SeqsUpTo(Min(L, MaxUp - Len(delivered))),
          err : {None} \cup SourceErrs]

\* lines 170-184, with p as line 166 left it, the buffer b and the error e
\* after lines 167-168, and n of line 160
ReadDeliver(L, p, b, e, n0) ==
  LET n1 == ReadClamp(n0, b, size)
      n2 == ReadLast(n1, b, e)
      p2 == copy(p, Slice(b, 0, n2))
  IN /\ arg' = p2
     /\ buf' = ReadCompact(b, n2)
     /\ err' = e
     /\ ret' = ReadRet(n2, e)
     /\ chunks' = IF n2 > 0 THEN Append(chunks, Slice(p2, 0, n2)) ELSE chunks
     /\ dest' = IF n2 > 0 THEN L ELSE dest

Read(L) ==
  /\ op' = "Read"
  /\ UNCHANGED <<size, sink, written, ctorVars, wrapVars, statsVars>>
  /\ IF ReadDone(err, buf)
       THEN /\ ret' = [n |-> 0, err |-> err]
            /\ arg' = make(L)
            /\ up' = <<>>
            /\ UNCHANGED <<buf, err, delivered, chunks, dest>>
       ELSE LET n0 == ReadFit(L, size)
            IN IF n0 = 0
                 THEN /\ ret' = [n |-> 0, err |-> None]
                      /\ arg' = make(L)
                      /\ up' = <<>>
                      /\ UNCHANGED <<buf, err, delivered, chunks, dest>>
                 ELSE IF ReadNeedsSource(err)
                   THEN \E out \in SourceOutcomes(L) :
                          LET l == Len(out.data)
                              p1 == copy(make(L), out.data)
                          IN /\ up' = <<[n |-> l, err |-> out.err]>>
                             /\ delivered' = delivered \o out.data
                             /\ ReadDeliver(L, p1, buf \o Slice(p1, 0, l),
                                            out.err, n0)
                   ELSE /\ up' = <<>>
                        /\ UNCHANGED delivered
                        /\ ReadDeliver(L, make(L), buf, err, n0)

\* ---- NewBlockReader, src/wrapio.go:232-237 ----

\* the adapter returned for (size, r): <<>> for nil, else <<the block>>
NewBlockReader(sz, r) ==
  IF r = Nil \/ sz < 1
    THEN <<>>
    ELSE <<[size |-> sz, buf |-> <<>>, err |-> None]>>

InitReader ==
  /\ WrapIdle /\ StatsIdle
  /\ size \in 1..MaxSize
  /\ self = "block"
  /\ ctor = [kind |-> "NewBlockReader", size |-> size, upstream |-> "r"]
  /\ buf = <<>>
  /\ err = None
  /\ sink = <<>>
  /\ written = <<>>
  /\ op = "New"
  /\ arg = <<>>
  /\ ret = [n |-> 0, err |-> None]
  /\ up = <<>>
  /\ delivered = <<>>
  /\ chunks = <<>>
  /\ dest = 0

NextReader == \E L \in 0..MaxDest : Read(L)

SpecReader == InitReader /\ [][NextReader]_vars

\* ---- a reader of blocks of 2 bytes or more over a long source of zeros,
\* ---- read with destinations of one block or one block and a byte ----
InitGrow ==
  /\ WrapIdle /\ StatsIdle
  /\ size \in 2..MaxSize
  /\ self = "block"
  /\ ctor = [kind |-> "NewBlockReader", size |-> size, upstream |-> "zeros"]
  /\ buf = <<>>
  /\ err = None
  /\ sink = <<>>
  /\ written = <<>>
  /\ op = "New"
  /\ arg = <<>>
  /\ ret = [n |-> 0, err |-> None]
  /\ up = <<>>
  /\ delivered = <<>>
  /\ chunks = <<>>
  /\ dest = 0

NextGrow == \E L \in {size, size + 1} : Read(L)

SpecGrow == InitGrow /\ [][NextGrow]_vars

\* the same reader with a caller that keeps calling Read and a source that
\* at some call returns io.EOF or an error
ReadSourceEnds ==
  \E L \in {size, size + 1} :
    Read(L) /\ Len(up') = 1 /\ up'[1].err # None

SpecDrain ==
  /\ InitGrow
  /\ [][NextGrow]_vars
  /\ WF_vars(NextGrow)
  /\ WF_vars(ReadSourceEnds)

\* ---- construction followed by the first call on the adapter ----

\* the state right after kind(sz, u) returned
InitNew ==
  \E kind \in {"NewBlockReader", "NewBlockWriter"},
     sz \in (0 - MaxSize)..MaxSize,
     u \in {Nil, "io"} :
    LET b == IF kind = "NewBlockReader"
               THEN NewBlockReader(sz, u)
               ELSE NewBlockWriter(sz, u)
    IN /\ WrapIdle /\ StatsIdle
       /\ ctor = [kind |-> kind, size |-> sz, upstream |-> u]
       /\ self = IF b = <<>> THEN Nil ELSE "block"
       /\ size = IF b = <<>> THEN 0 ELSE b[1].size
       /\ buf = IF b = <<>> THEN <<>> ELSE b[1].buf
       /\ err = IF b = <<>> THEN None ELSE b[1].err
       /\ sink = <<>>
       /\ written = <<>>
       /\ op = "New"
       /\ arg = <<>>
       /\ ret = [n |-> 0, err |-> None]
       /\ up = <<>>
       /\ delivered = <<>>
       /\ chunks = <<>>
       /\ dest = 0

FirstWrite(p) ==
  /\ self = "block" /\ ctor.kind = "NewBlockWriter" /\ op = "New"
  /\ Write(p)

FirstClose ==
  /\ self = "block" /\ ctor.kind = "NewBlockWriter" /\ op = "New"
  /\ Close

FirstRead(L) ==
  /\ self = "block" /\ ctor.kind = "NewBlockReader" /\ op = "New"
  /\ Read(L)

NextNew ==
  \/ \E p \in SeqsUpTo(MaxData) : FirstWrite(p)
  \/ FirstClose
  \/ \E L \in 0..MaxDest : FirstRead(L)

SpecNew == InitNew /\ [][NextNew]_vars

\* ---- wrap.Read / wrap.Write, src/wrapio.go:30-43 ----

\* what one call to the underlying r.Read(p) may return
WrapSourceOutcomes(L) ==
  [data : SeqsUpTo(Min(L, MaxWrapData)), err : {None} \cup SourceErrs]

\* lines 33-35: the slices Read hands to the handler
WrapReadHandledAlways(p, n) == <<Slice(p, 0, n)>>
WrapReadHandled(p, n) == IF n > 0 THEN <<Slice(p, 0, n)>> ELSE <<>>

\* lines 41-42: what Write does with p and the result out of w.Write(p), in
\* order
WrapWriteEventsAfter(p, out) ==
  << [ev |-> "w.Write", data |-> p, err |-> out.err],
     [ev |-> "handler", data |-> p, err |-> None] >>
WrapWriteEvents(p, out) ==
  << [ev |-> "handler", data |-> p, err |-> None],
     [ev |-> "w.Write", data |-> p, err |-> out.err] >>

WrapRead(L) ==
  /\ Len(log) + 2 <= MaxEvents
  /\ op' = "wrap.Read"
  /\ UNCHANGED <<blockVars, statsVars>>
  /\ \E out \in WrapSourceOutcomes(L) :
       LET n == Len(out.data)
           p1 == copy(make(L), out.data)
           hs == WrapReadHandled(p1, n)
       IN /\ up' = <<[n |-> n, err |-> out.err]>>
          /\ arg' = p1
          /\ log' = log \o <<[ev |-> "r.Read", data |-> out.data,
                              err |-> out.err]>>
                        \o [i \in 1..Len(hs) |->
                              [ev |-> "handler", data |-> hs[i], err |-> None]]
          /\ ret' = [n |-> n, err |-> out.err]

WrapWrite(p) ==
  /\ Len(log) + 2 <= MaxEvents
  /\ op' = "wrap.Write"
  /\ arg' = p
  /\ UNCHANGED <<blockVars, statsVars>>
  /\ \E out \in SinkOutcomes(p) :
       /\ up' = <<out>>
       /\ log' = log \o WrapWriteEvents(p, out)
       /\ ret' = out

\* NewFuncReader / NewFuncWriter, src/wrapio.go:49-71
InitWrap ==
  /\ BlockIdle /\ StatsIdle /\ WrapIdle
  /\ op = "New"
  /\ arg = <<>>
  /\ ret = [n |-> 0, err |-> None]
  /\ up = <<>>

NextWrap ==
  \/ \E L \in 0..MaxWrapData : WrapRead(L)
  \/ \E p \in SeqsUpTo(MaxWrapData) : WrapWrite(p)

SpecWrap == InitWrap /\ [][NextWrap]_vars

\* ---- wrap.Read / wrap.Write with a wrapfunc,
\* ---- src/unnamed/part_000:91-124 ----

\* what one call f(p) may return
WrapfOutcomes == {None, "e1"}

\* line 111 and line 121: the result when f failed with e after n bytes
WrapfFailRetCount(n, e) == [n |-> n, err |-> e]
WrapfFailRet(n, e) == [n |-> 0, err |-> e]

WrapfRead(L) ==
  /\ Len(log) + 2 <= MaxEvents
  /\ op' = "wrapf.Read"
  /\ UNCHANGED <<blockVars, statsVars>>
  /\ \E out \in WrapSourceOutcomes(L) :
       LET n == Len(out.data)
           p1 == copy(make(L), out.data)
           rd == [ev |-> "r.Read", data |-> out.data, err |-> out.err]
       IN /\ up' = <<[n |-> n, err |-> out.err]>>
          /\ arg' = p1
          /\ IF n > 0
               THEN \E e \in WrapfOutcomes :
                      /\ log' = log \o <<rd, [ev |-> "f",
                                              data |-> Slice(p1, 0, n),
                                              err |-> e]>>
                      /\ ret' = IF e # None
                                  THEN WrapfFailRet(n, e)
                                  ELSE [n |-> n, err |-> out.err]
               ELSE /\ log' = log \o <<rd>>
                    /\ ret' = [n |-> n, err |-> out.err]

WrapfWrite(p) ==
  /\ Len(log) + 2 <= MaxEvents
  /\ op' = "wrapf.Write"
  /\ arg' = p
  /\ UNCHANGED <<blockVars, statsVars>>
  /\ \E e \in WrapfOutcomes :
       IF e # None
         THEN /\ log' = log \o <<[ev |-> "f", data |-> p, err |-> e]>>
              /\ up' = <<>>
              /\ ret' = WrapfFailRet(Len(p), e)
         ELSE \E out \in SinkOutcomes(p) :
                /\ log' = log \o <<[ev |-> "f", data |-> p, err |-> e],
                                   [ev |-> "w.Write", data |-> p,
                                    err |-> out.err]>>
                /\ up' = <<out>>
                /\ ret' = out

NextWrapf ==
  \/ \E L \in 0..MaxWrapData : WrapfRead(L)
  \/ \E p \in SeqsUpTo(MaxWrapData) : WrapfWrite(p)

SpecWrapf == InitWrap /\ [][NextWrapf]_vars

\* ---- Stats.update, src/wrapio.go:118-124 ----

\* line 119: s.Lock() returns only while no goroutine holds the mutex
MutexFreeAlways(m) == TRUE
MutexFree(m) == m = 0

\* line 123: float64(s.Total / s.Calls), an integer division
StatsAverage(total, calls) == total \div calls

\* the calls of update that have begun
Started ==
  hist.n + Cardinality({t \in Threads : thr[t].pc \notin {"idle", "held"}})

\* a wrapper calls s.update(p) with len(p) = n
UpdateCall(t, n) ==
  /\ thr[t].pc = "idle"
  /\ Started < MaxUpdates
  /\ thr' = [thr EXCEPT ![t] = [pc |-> "Lock", len |-> n, tmp |-> 0, total |-> 0, calls |-> 0]]
  /\ UNCHANGED <<blockVars, callVars, wrapVars, stats, mu, hist>>

\* line 119
UpdateLock(t) ==
  /\ thr[t].pc = "Lock"
  /\ MutexFree(mu)
  /\ mu' = t
  /\ thr' = [thr EXCEPT ![t].pc = "LoadTotal"]
  /\ UNCHANGED <<blockVars, callVars, wrapVars, stats, hist>>

\* line 121, the read of s.Total
UpdateLoadTotal(t) ==
  /\ thr[t].pc = "LoadTotal"
  /\ thr' = [thr EXCEPT ![t].pc = "StoreTotal", ![t].tmp = stats.Total]
  /\ UNCHANGED <<blockVars, callVars, wrapVars, stats, mu, hist>>

\* line 121, the write of s.Total; the value stays in a register
UpdateStoreTotal(t) ==
  /\ thr[t].pc = "StoreTotal"
  /\ stats' = [stats EXCEPT !.Total = thr[t].tmp + thr[t].len]
  /\ thr' = [thr EXCEPT ![t].pc = "LoadCalls", ![t].tmp = 0,
                        ![t].total = thr[t].tmp + thr[t].len]
  /\ UNCHANGED <<blockVars, callVars, wrapVars, mu, hist>>

\* line 122, the read of s.Calls
UpdateLoadCalls(t) ==
  /\ thr[t].pc = "LoadCalls"
  /\ thr' = [thr EXCEPT ![t].pc = "StoreCalls", ![t].tmp = stats.Calls]
  /\ UNCHANGED <<blockVars, callVars, wrapVars, stats, mu, hist>>

\* line 122, the write of s.Calls; the value stays in a register
UpdateStoreCalls(t) ==
  /\ thr[t].pc = "StoreCalls"
  /\ stats' = [stats EXCEPT !.Calls = thr[t].tmp + 1]
  /\ thr' = [thr EXCEPT ![t].pc = "AverageTotal", ![t].tmp = 0,
                        ![t].calls = thr[t].tmp + 1]
  /\ UNCHANGED <<blockVars, callVars, wrapVars, mu, hist>>

\* what line 123 may take for a field: the field as it is in memory, or the
\* value this goroutine stored in it and still has in a register. The two
\* differ only when another goroutine stored in between, a data race
AverageOperandMemory(field, reg) == {field}
AverageOperand(field, reg) == {field, reg}

\* line 123, the read of s.Total
UpdateAverageTotal(t) ==
  /\ thr[t].pc = "AverageTotal"
  /\ \E v \in AverageOperand(stats.Total, thr[t].total) :
       thr' = [thr EXCEPT ![t].pc = "AverageCalls", ![t].total = v]
  /\ UNCHANGED <<blockVars, callVars, wrapVars, stats, mu, hist>>

\* line 123, the read of s.Calls
UpdateAverageCalls(t) ==
  /\ thr[t].pc = "AverageCalls"
  /\ \E v \in AverageOperand(stats.Calls, thr[t].calls) :
       thr' = [thr EXCEPT ![t].pc = "Average", ![t].calls = v]
  /\ UNCHANGED <<blockVars, callVars, wrapVars, stats, mu, hist>>

\* line 123, the division and the write of s.Average
UpdateAverage(t) ==
  /\ thr[t].pc = "Average"
  /\ stats' = [stats EXCEPT
                 !.Average = StatsAverage(thr[t].total, thr[t].calls)]
  /\ thr' = [thr EXCEPT ![t].pc = "Unlock", ![t].total = 0, ![t].calls = 0]
  /\ UNCHANGED <<blockVars, callVars, wrapVars, mu, hist>>

\* line 120, the deferred s.Unlock(), and the return; unlocking a mutex
\* that is not locked is a fatal error of the runtime: the program ends
UpdateUnlock(t) ==
  /\ thr[t].pc = "Unlock"
  /\ mu # 0
  /\ mu' = 0
  /\ hist' = [hist EXCEPT !.sum = hist.sum + thr[t].len, !.n = hist.n + 1]
  /\ thr' = [thr EXCEPT ![t] = [pc |-> "idle", len |-> 0, tmp |-> 0, total |-> 0, calls |-> 0]]
  /\ UNCHANGED <<blockVars, callVars, wrapVars, stats>>

\* ---- Stats.Lock and Stats.Unlock, the methods of the embedded sync.Mutex
\* ---- (src/wrapio.go:106), called by a goroutine that is not in update ----

\* s.Lock(): returns once the mutex is free, and the caller holds it
StatsLock(t) ==
  /\ thr[t].pc = "idle"
  /\ MutexFree(mu)
  /\ mu' = t
  /\ thr' = [thr EXCEPT ![t].pc = "held"]
  /\ UNCHANGED <<blockVars, callVars, wrapVars, stats, hist>>

\* s.Unlock(): frees the mutex whoever locked it, so also under a goroutine
\* that is in update; on a mutex that is not locked it is a fatal error of
\* the runtime and the program ends
StatsUnlock(t) ==
  /\ thr[t].pc \in {"idle", "held"}
  /\ mu # 0
  /\ mu' = 0
  /\ thr' = [thr EXCEPT ![t].pc = "idle"]
  /\ hist' = [hist EXCEPT !.stray = hist.stray \/ mu # t]
  /\ UNCHANGED <<blockVars, callVars, wrapVars, stats>>

\* NewStatsReader / NewStatsWriter, src/wrapio.go:130-142
InitStats ==
  /\ BlockIdle /\ WrapIdle /\ StatsIdle
  /\ op = "New"
  /\ arg = <<>>
  /\ ret = [n |-> 0, err |-> None]
  /\ up = <<>>

NextStats ==
  \E t \in Threads :
    \/ \E n \in 0..MaxWrapData : UpdateCall(t, n)
    \/ UpdateLock(t)
    \/ UpdateLoadTotal(t)
    \/ UpdateStoreTotal(t)
    \/ UpdateLoadCalls(t)
    \/ UpdateStoreCalls(t)
    \/ UpdateAverageTotal(t)
    \/ UpdateAverageCalls(t)
    \/ UpdateAverage(t)
    \/ UpdateUnlock(t)
    \/ StatsLock(t)
    \/ StatsUnlock(t)

SpecStats == InitStats /\ [][NextStats]_vars

\* ==== properties of the block writer (SpecWriter) ====

Last(s) == s[Len(s)]

\* the bytes the sink received, in call order
SinkData == Concat([i \in 1..Len(sink) |-> sink[i].data])

NoSinkFailure == \A i \in 1..Len(sink) : sink[i].err = None

\* the sink calls made by Write that failed
WriteFailures ==
  {i \in 1..Len(sink) : sink[i].by = "Write" /\ sink[i].err # None}

FirstWriteFailure ==
  sink[CHOOSE i \in WriteFailures : \A j \in WriteFailures : i <= j].err

\* C1: every sink call made by Write carries a non-empty slice whose length
\* is a multiple of the block size; only a call made by Close may carry a
\* length that is not.
C1_WriteForwardsWholeBlocks ==
  \A i \in 1..Len(sink) :
    sink[i].by = "Write" =>
      /\ Len(sink[i].data) > 0
      /\ Len(sink[i].data) % size = 0

C1_Witness ==
  /\ size > 1
  /\ \E i, j \in 1..Len(sink) :
       /\ i < j
       /\ sink[i].by = "Write"
       /\ Len(sink[i].data) = size
       /\ sink[j].by = "Close"
       /\ Len(sink[j].data) % size # 0

\* C2: with a sink that never failed, after Writes followed by one Close the
\* bytes the sink received, in call order, are exactly the bytes written, in
\* order.
C2_SinkReceivesInput ==
  ( /\ op = "Close"
    /\ NoSinkFailure
    /\ \A i \in 1..(Len(sink) - 1) : sink[i].by = "Write" )
  => SinkData = written

C2_Witness ==
  /\ op = "Close"
  /\ NoSinkFailure
  /\ Len(sink) >= 2
  /\ \A i \in 1..(Len(sink) - 1) : sink[i].by = "Write"
  /\ Last(sink).by = "Close"
  /\ Len(written) >= 3
  /\ written[1] # written[2]
  /\ SinkData = written

\* C3: a Write on a writer with no recorded error whose forwarding call
\* succeeds, or that forwards nothing, returns (len(p), nil).
C3_WriteAcceptsAll ==
  [][ ( /\ op' = "Write"
        /\ err = None
        /\ \/ up' = <<>>
           \/ Len(up') = 1 /\ up'[1].err = None )
      => ret' = [n |-> Len(arg'), err |-> None] ]_vars

C3_Witness ==
  /\ op = "Write"
  /\ Len(up) = 1
  /\ up[1].err = None
  /\ up[1].n # Len(arg)
  /\ Len(arg) > 0
  /\ ret = [n |-> Len(arg), err |-> None]

\* C4: Close on a writer with no recorded error hands exactly the pending
\* buffer, whose length is the number of bytes written so far mod the block
\* size, to the sink in one call when it is non-empty and returns the status
\* of that call; with an empty buffer it makes no sink call and returns nil.
C4_CloseFlushesTail ==
  [][ (op' = "Close" /\ err = None)
      => /\ Len(buf) = Len(written) % size
         /\ IF Len(buf) > 0
              THEN /\ Len(up') = 1
                   /\ sink' = Append(sink, [data |-> buf, by |-> "Close",
                                            err |-> up'[1].err])
                   /\ ret'.err = up'[1].err
              ELSE /\ up' = <<>>
                   /\ sink' = sink
                   /\ ret'.err = None ]_vars

C4_Witness ==
  /\ op = "Close"
  /\ Len(up) = 1
  /\ Len(sink) >= 2
  /\ Last(sink).by = "Close"
  /\ Last(sink).data = buf
  /\ Len(buf) > 0
  /\ Len(buf) = Len(written) % size
  /\ ret.err = up[1].err

\* C5: once a forwarding call of Write has failed with e, every later Write
\* returns (0, e), makes no sink call and leaves the buffer alone, and Close
\* returns e without a sink call.
C5_WriteErrorSticky ==
  [][ WriteFailures # {}
      => /\ op' = "Write" =>
              /\ ret' = [n |-> 0, err |-> FirstWriteFailure]
              /\ up' = <<>>
              /\ sink' = sink
              /\ buf' = buf
         /\ op' = "Close" =>
              /\ ret'.err = FirstWriteFailure
              /\ up' = <<>>
              /\ sink' = sink ]_vars

C5_Witness ==
  /\ WriteFailures # {}
  /\ op = "Write"
  /\ Len(arg) > 0
  /\ up = <<>>
  /\ ret = [n |-> 0, err |-> FirstWriteFailure]
  /\ Last(sink).err = ret.err

\* C6: a Write whose sink call fails records the sink's error and returns
\* the byte count the sink reported together with that error, not len(p).
C6_WriteReportsSinkCount ==
  [][ (op' = "Write" /\ Len(up') = 1 /\ up'[1].err # None)
      => /\ err' = up'[1].err
         /\ ret' = [n |-> up'[1].n, err |-> up'[1].err] ]_vars

C6_Witness ==
  /\ op = "Write"
  /\ Len(up) = 1
  /\ up[1].err # None
  /\ err = up[1].err
  /\ ret = [n |-> up[1].n, err |-> up[1].err]
  /\ ret.n # Len(arg)

\* ==== properties of the block reader (SpecReader) ====

\* the bytes Read returned, in call order
ChunkData == Concat(chunks)

\* the last Read returned the terminal status
ReadEnded == op = "Read" /\ ret.err # None

\* C7: every read length returned before the final non-zero one is a
\* multiple of the block size, whatever the source's short reads.
C7_ReadsAreWholeBlocks ==
  \A i \in 1..(Len(chunks) - 1) : Len(chunks[i]) % size = 0

C7_Witness ==
  /\ size > 1
  /\ Len(chunks) >= 2
  /\ Len(chunks[1]) = size
  /\ Len(Last(chunks)) % size # 0

\* C8: when Read returns the terminal status, the chunks it returned, in
\* order, are exactly the bytes the source delivered, in order.
C8_ReaderDeliversInput == ReadEnded => ChunkData = delivered

C8_Witness ==
  /\ ReadEnded
  /\ ret.err = EOF
  /\ Len(chunks) >= 2
  /\ Len(delivered) >= 3
  /\ delivered[1] # delivered[2]
  /\ ChunkData = delivered

\* C9 as stated: the final non-zero read length is N mod S, or S when
\* N mod S = 0.
C9_FinalReadIsOneBlock ==
  (ReadEnded /\ Len(delivered) > 0 /\ Len(chunks) > 0)
  => Len(Last(chunks)) =
       IF Len(delivered) % size = 0 THEN size ELSE Len(delivered) % size

\* C9 amended: the final non-zero read length is N mod S when N mod S # 0;
\* when N mod S = 0 it is a positive multiple of S that fits in the
\* destination of that call.
C9_FinalReadLength ==
  (ReadEnded /\ Len(delivered) > 0)
  => /\ Len(chunks) > 0
     /\ IF Len(delivered) % size # 0
          THEN Len(Last(chunks)) = Len(delivered) % size
          ELSE /\ Len(Last(chunks)) > 0
               /\ Len(Last(chunks)) % size = 0
               /\ Len(Last(chunks)) <= dest

C9_Witness ==
  /\ ReadEnded
  /\ Len(delivered) % size = 0
  /\ Len(chunks) > 0
  /\ Len(Last(chunks)) = 2 * size

\* C10 as stated: a Read with a destination shorter than the block size
\* returns (0, nil) in every state of the reader.
C10_ShortDestAlwaysNil ==
  (op = "Read" /\ Len(arg) < size) => ret = [n |-> 0, err |-> None]

\* C10 amended: a Read with a destination shorter than the block size
\* returns (0, nil), except that once a terminal condition is recorded and
\* the buffer is empty it returns (0, that condition).
C10_ShortDestStarves ==
  [][ (op' = "Read" /\ Len(arg') < size)
      => ret' = IF err # None /\ Len(buf) = 0
                  THEN [n |-> 0, err |-> err]
                  ELSE [n |-> 0, err |-> None] ]_vars

C10_Witness ==
  /\ op = "Read"
  /\ Len(arg) < size
  /\ ret = [n |-> 0, err |-> None]
  /\ err # None
  /\ Len(buf) > 0

\* C11: once a terminal condition is recorded and the buffer is empty, every
\* Read, for any destination length, returns (0, that condition) and
\* delivers nothing more.
C11_ReadEndIsSticky ==
  [][ (op' = "Read" /\ err # None /\ Len(buf) = 0)
      => /\ ret' = [n |-> 0, err |-> err]
         /\ up' = <<>>
         /\ err' = err
         /\ buf' = buf
         /\ chunks' = chunks ]_vars

C11_Witness ==
  /\ ReadEnded
  /\ ret = [n |-> 0, err |-> EOF]
  /\ Len(arg) >= size
  /\ Len(chunks) >= 2
  /\ Len(Last(chunks)) % size # 0
  /\ buf = <<>>

\* C12: Read never returns a terminal status together with bytes: a call
\* that delivers bytes returns nil, and a terminal status is returned only
\* by a call that found the condition recorded and the buffer empty on
\* entry.
C12_NoDataWithStatus ==
  [][ op' = "Read"
      => /\ ret'.n > 0 => ret'.err = None
         /\ ret'.err # None =>
              /\ ret'.n = 0
              /\ err # None
              /\ ret'.err = err
              /\ Len(buf) = 0
              /\ up' = <<>> ]_vars

C12_Witness ==
  /\ op = "Read"
  /\ Len(up) = 1
  /\ up[1].err = EOF
  /\ up[1].n > 0
  /\ ret.n > 0
  /\ ret.err = None
  /\ err = EOF
  /\ buf = <<>>

\* ==== properties of the constructors (SpecNew) ====

\* C13: NewBlockReader and NewBlockWriter return nil exactly when size < 1
\* or the upstream is nil; otherwise the adapter has the given size, an empty
\* buffer and no recorded error; construction reads and writes nothing.
C13_ConstructorValidates ==
  /\ self = Nil <=> (ctor.size < 1 \/ ctor.upstream = Nil)
  /\ op = "New" =>
       /\ sink = <<>>
       /\ delivered = <<>>
       /\ up = <<>>
       /\ self # Nil => size = ctor.size /\ buf = <<>> /\ err = None

C13_Witness ==
  /\ self = "block"
  /\ ctor.kind = "NewBlockWriter"
  /\ ctor.size = 2
  /\ op = "Write"
  /\ Len(sink) = 1
  /\ ret.err = None

\* ==== properties of the transparent wrap adapter ====

\* C14 (SpecWrapf): when the wrapfunc fails with e, Read returns (0, e) even
\* though the underlying read obtained bytes, and Write returns (0, e)
\* without calling the underlying writer.
C14_ObserverFailureWins ==
  [][ \A i \in (Len(log) + 1)..Len(log') :
        (log'[i].ev = "f" /\ log'[i].err # None)
        => /\ ret' = [n |-> 0, err |-> log'[i].err]
           /\ op' = "wrapf.Read" =>
                /\ Len(up') = 1
                /\ up'[1].n > 0
                /\ log'[i - 1].ev = "r.Read"
           /\ op' = "wrapf.Write" =>
                /\ up' = <<>>
                /\ Len(log') = Len(log) + 1 ]_vars

C14_Witness ==
  /\ op = "wrapf.Read"
  /\ Len(log) >= 2
  /\ Last(log).ev = "f"
  /\ Last(log).err # None
  /\ Len(up) = 1
  /\ up[1].n > 0
  /\ up[1].err = None
  /\ ret = [n |-> 0, err |-> Last(log).err]

\* C15 (SpecWrap): the wrap buffers nothing.  Read makes one underlying
\* read, returns its count and status, and calls the handler, with exactly
\* the bytes read, only when at least one byte was read.  Write calls the
\* handler with all of p, then makes one underlying write and returns its
\* result, so re-sent data reaches the handler again.
C15_WrapIsTransparent ==
  [][ LET k == Len(log)
      IN /\ op' = "wrap.Read" =>
              /\ SubSeq(log', 1, k) = log
              /\ Len(up') = 1
              /\ ret' = up'[1]
              /\ log'[k + 1].ev = "r.Read"
              /\ Len(log'[k + 1].data) = ret'.n
              /\ IF ret'.n > 0
                   THEN /\ Len(log') = k + 2
                        /\ log'[k + 2] = [ev |-> "handler",
                                          data |-> log'[k + 1].data,
                                          err |-> None]
                        /\ Slice(arg', 0, ret'.n) = log'[k + 1].data
                   ELSE Len(log') = k + 1
         /\ op' = "wrap.Write" =>
              /\ SubSeq(log', 1, k) = log
              /\ Len(log') = k + 2
              /\ log'[k + 1] = [ev |-> "handler", data |-> arg', err |-> None]
              /\ log'[k + 2].ev = "w.Write"
              /\ log'[k + 2].data = arg'
              /\ Len(up') = 1
              /\ ret' = up'[1] ]_vars

C15_Witness ==
  /\ op = "wrap.Write"
  /\ Len(log) = 4
  /\ Len(arg) > 0
  /\ log[1] = [ev |-> "handler", data |-> arg, err |-> None]
  /\ log[2].ev = "w.Write"
  /\ log[2].err # None
  /\ log[3] = log[1]
  /\ log[4].ev = "w.Write"
  /\ ret.err = None

\* ==== properties of Stats (SpecStats) ====

\* C16: under any interleaving of update calls on one Stats, with callers
\* that lock the Stats to read it and unlock only what they locked, no update
\* is lost: whenever the mutex is free, and so once every update has
\* returned, Total is the sum of the lengths passed, Calls the number of
\* calls and Average the integer quotient Total div Calls.
C16_StatsUpdatesSerialized ==
  (mu = 0 /\ ~hist.stray) =>
    /\ stats.Total = hist.sum
    /\ stats.Calls = hist.n
    /\ stats.Average = IF hist.n = 0 THEN 0 ELSE hist.sum \div hist.n

C16_Witness ==
  /\ \A t \in Threads : thr[t].pc = "idle"
  /\ mu = 0
  /\ ~hist.stray
  /\ hist.n = MaxUpdates
  /\ stats.Calls = MaxUpdates
  /\ stats.Total = hist.sum
  /\ stats.Average * stats.Calls # stats.Total

\* ==== the reader's buffer between calls (SpecGrow) ====

\* C17 as stated: after every completed Read with L >= S the buffer holds
\* fewer than S bytes unless a terminal condition is recorded, also for L
\* that is not a multiple of S.
C17_BufferBelowBlock ==
  (op = "Read" /\ Len(arg) >= size) => (Len(buf) < size \/ err # None)

\* C17 amended: after every completed Read with destination length L the
\* buffer holds fewer than S bytes, or at most L mod S bytes more than
\* before the call; so it stays below S while every L is a multiple of S.
C17_BufferGrowsByRemainder ==
  [][ op' = "Read"
      => \/ Len(buf') < size
         \/ Len(buf') <= Len(buf) + (Len(arg') % size) ]_vars

C17_Witness ==
  /\ op = "Read"
  /\ err = None
  /\ Len(arg) % size # 0
  /\ ret.n = size
  /\ Len(buf) >= size

\* C18 as stated: the buffer length stays bounded by a couple of block sizes
\* plus one destination length, however many Reads were made.
C18_BufferBoundedByConstant ==
  op = "Read" => Len(buf) <= 2 * size + Len(arg)

\* C18 amended: the buffer length is bounded by (S - 1) * (k + 1), k the
\* number of Reads that returned bytes so far, not by a constant.
C18_BufferBoundedByReads ==
  Len(buf) <= (size - 1) * (Len(chunks) + 1)

C18_Witness ==
  /\ op = "Read"
  /\ err = None
  /\ Len(buf) > 2 * size + Len(arg)
  /\ Len(buf) <= (size - 1) * (Len(chunks) + 1)

\* ==== the writer's buffer and its terminal state (SpecWriter) ====

\* C19: after every completed Write, whether its forwarding succeeded,
\* failed or did not happen, and after every Close, the writer's buffer
\* holds fewer than S bytes.
C19_WriterBufferBelowBlock ==
  op \in {"Write", "Close"} => Len(buf) < size

C19_Witness ==
  /\ op = "Write"
  /\ Len(up) = 1
  /\ up[1].err # None
  /\ Len(buf) > 0
  /\ Len(buf) < size

\* the sink calls made by Close that failed
CloseFailures ==
  {i \in 1..Len(sink) : sink[i].by = "Close" /\ sink[i].err # None}

FirstCloseFailure ==
  sink[CHOOSE i \in CloseFailures : \A j \in CloseFailures : i <= j].err

\* C20: after a Close whose sink call failed with error e, every later Write
\* returns (0, e) and makes no sink call, and every later Close returns e.
C20_CloseFailureSticky ==
  [][ CloseFailures # {}
      => /\ op' = "Write" =>
              /\ ret' = [n |-> 0, err |-> FirstCloseFailure]
              /\ up' = <<>>
              /\ sink' = sink
         /\ op' = "Close" => ret'.err = FirstCloseFailure ]_vars

\* ==== the reader and its source (SpecReader) ====

\* C21: a Read makes at most one read of the source and records the
\* condition that read signals; once a condition is recorded no Read reads
\* the source again, the recorded condition never changes, and a status
\* reported later is that condition.
C21_SourceEndIsFinal ==
  [][ op' = "Read"
      => /\ Len(up') <= 1
         /\ (Len(up') = 1 /\ up'[1].err # None) => err' = up'[1].err
         /\ err # None =>
              /\ up' = <<>>
              /\ delivered' = delivered
              /\ err' = err
              /\ ret'.err \in {None, err} ]_vars

C21_Witness ==
  /\ op = "Read"
  /\ err # None
  /\ up = <<>>
  /\ ret.n > 0
  /\ ret.err = None

\* C22: a Read whose destination is shorter than the block size reads
\* nothing from the source and leaves the buffer and the recorded condition
\* as they were.
C22_ShortDestChangesNothing ==
  [][ (op' = "Read" /\ Len(arg') < size)
      => /\ up' = <<>>
         /\ delivered' = delivered
         /\ buf' = buf
         /\ err' = err
         /\ chunks' = chunks ]_vars

C22_Witness ==
  /\ op = "Read"
  /\ Len(arg) > 0
  /\ Len(arg) < size
  /\ up = <<>>
  /\ err = None
  /\ Len(buf) > 0

\* ==== the writer after Close, and the count Write returns (SpecWriter) ====

\* C23: with a sink that never fails every written byte is passed to the
\* sink at most once, in order: the bytes the sink received are a prefix of
\* the bytes written, also after a second Close or a Write after Close.
C23_NoByteForwardedTwice ==
  NoSinkFailure =>
    /\ Len(SinkData) <= Len(written)
    /\ SinkData = SubSeq(written, 1, Len(SinkData))

\* C24: the count a Write returns is between 0 and the length of the data
\* it was given, also when the forwarding call fails on a block that holds
\* bytes buffered by earlier Writes.
C24_WriteCountWithinData ==
  op = "Write" => (0 <= ret.n /\ ret.n <= Len(arg))

\* ==== the reader drains (SpecDrain) ====

\* C25: over a source that at some call signals a terminal condition, a
\* caller that keeps calling Read with destinations of at least a block
\* eventually receives (0, that condition): once the condition is recorded
\* every Read that finds bytes in the buffer delivers at least one of them.
C25_ReaderDrains ==
  /\ [][ (op' = "Read" /\ err # None /\ Len(buf) > 0)
         => /\ ret'.n >= 1
            /\ Len(buf') = Len(buf) - ret'.n ]_vars
  /\ <>(ReadEnded /\ ret.n = 0 /\ ret.err = err /\ buf = <<>>)

C25_Witness ==
  /\ ReadEnded
  /\ ctor.upstream = "zeros"
  /\ ret = [n |-> 0, err |-> err]
  /\ Len(chunks) >= 3
  /\ Len(Last(chunks)) < size

====
